---- MODULE Spec2Model ----
(***************************************************************************)
(* Scene sequencer, growth revealer, portrait particle field and image     *)
(* loader of src/main.js.                                                  *)
(*                                                                         *)
(* Time is counted in units of 20 ms: state.dt (milliseconds) and          *)
(* scene.timeIn (seconds) are both held in that unit, so 40 ms is 2 units, *)
(* 2.4 s is 120 units and 1.2 s is 60 units.  Arithmetic on times is exact *)
(* except where a comparison of the accumulated double scene.timeIn with a *)
(* constant decides control flow: there the sign of the accumulated        *)
(* rounding error is an input of the tick (RoundingSigns).                 *)
(*                                                                         *)
(* Geometry (coordinates, thickness, sway, particle positions, alpha) is   *)
(* not part of the state: an array is held by what the control flow reads  *)
(* of it (segment depths, runs of target points, the number of particles). *)
(***************************************************************************)
EXTENDS Integers, Sequences, FiniteSets, TLC

VARIABLES state, images, loader, scene, tree, facePortrait, fed, resetFrom

\* fed and resetFrom are history variables: the deltas fed to update since
\* the last resetAll (counted up to SeedTime + MaxDt), and the scene a click
\* on #replay has just called resetAll in ("none" once a tick has run)
vars == <<state, images, loader, scene, tree, facePortrait, fed, resetFrom>>

\* ------------------------------------------------------------------------
\* Bounds of the model
\* ------------------------------------------------------------------------
\* largest gap between two frame timestamps that is tried, in 20 ms units
MaxGap == 3
\* ticks with a positive delta stop once the Portrait scene is this old
MaxFaceTime == 3
\* length of the cyclic tape of Math.random() < 0.65 outcomes of one tree
TapeLen == 2

\* viewport widths tried (multiples of 18, so that 6.5 - w/900 s is a whole
\* number of 20 ms units)
Widths == {360, 540, 1548}
\* numbers of points the luminance loop may keep
KeptSamples == {0, 1, 599, 600, 601}
\* sign of the rounding error accumulated in scene.timeIn
RoundingSigns == {-1, 0, 1}
Gaps == (-1)..MaxGap
Tapes == [1..TapeLen -> BOOLEAN]

\* ------------------------------------------------------------------------
\* Program constants
\* ------------------------------------------------------------------------
SEED == "seed"
TREE == "tree"
PAUSE == "pause"
FACE == "face"
SceneName == {SEED, TREE, PAUSE, FACE}

MaxDt == 2
SeedTime == 120
PauseTime == 60
maxDepth == 7
NumTiles == 25
MinPoints == 600
SyntheticPoints == 900

\* ------------------------------------------------------------------------
\* Utilities
\* ------------------------------------------------------------------------
Min(a, b) == IF a <= b THEN a ELSE b
Max(a, b) == IF a >= b THEN a ELSE b

clamp(v, a, b) == Max(a, Min(b, v))

\* smoothstep(t) = t*t*(3 - 2*t) for t = a/g, as the fraction num/den
smoothstep(a, g) ==
    IF a = 0 THEN [num |-> 0, den |-> 1]
    ELSE IF a = g THEN [num |-> 1, den |-> 1]
    ELSE [num |-> a * a * (3 * g - 2 * a), den |-> g * g * g]

\* quotient and remainder of n * num by den, without forming n * num
RECURSIVE MulDiv(_, _, _)
MulDiv(n, num, den) ==
    IF n = 0 THEN [q |-> 0, r |-> 0]
    ELSE LET h == MulDiv(n \div 2, num, den)
             s == 2 * h.r + (n % 2) * num
         IN [q |-> 2 * h.q + s \div den, r |-> s % den]

\* `timeIn > limit' on the accumulated double
exceeds(t, limit, err) == t > limit \/ (t = limit /\ err > 0)

\* `clamp(timeIn / growTime, 0, 1) >= 1' on the accumulated double
reached(t, limit, err) == t > limit \/ (t = limit /\ err >= 0)

\* ------------------------------------------------------------------------
\* Scene system
\* ------------------------------------------------------------------------
switchTo(next) == [name |-> next, timeIn |-> 0]

\* ------------------------------------------------------------------------
\* Procedural tree
\* ------------------------------------------------------------------------
\* depth < 2 ? 2 : (Math.random() < 0.65 ? 2 : 1); pos counts the draws
branchCount(depth, pos, tape) ==
    IF depth < 2 THEN 2 ELSE IF tape[(pos % Len(tape)) + 1] THEN 2 ELSE 1

drawsUsed(depth) == IF depth < 2 THEN 0 ELSE 1

\* depths a segment is filed under: one more than maxDepth, so that a segment
\* pushed too deep is seen
Depths == 0..(maxDepth + 1)

\* the segment pushed by one invocation, filed under its depth
ownSegment(depth) == [d \in Depths |-> IF d = depth THEN 1 ELSE 0]

\* _growRecursive with the depth test placed before the push
RECURSIVE growRecursive_checkFirst(_, _, _)
growRecursive_checkFirst(depth, pos, tape) ==
    IF depth >= maxDepth
    THEN [segs |-> [d \in Depths |-> 0], pos |-> pos, calls |-> 1]
    ELSE LET own == ownSegment(depth)
             n == branchCount(depth, pos, tape)
             p1 == pos + drawsUsed(depth)
             c1 == growRecursive_checkFirst(depth + 1, p1, tape)
         IN IF n = 1
            THEN [segs |-> [d \in Depths |-> own[d] + c1.segs[d]],
                  pos |-> c1.pos,
                  calls |-> 1 + c1.calls]
            ELSE LET c2 == growRecursive_checkFirst(depth + 1, c1.pos, tape)
                 IN [segs |-> [d \in Depths |->
                                  own[d] + c1.segs[d] + c2.segs[d]],
                     pos |-> c2.pos,
                     calls |-> 1 + c1.calls + c2.calls]

\* one invocation of _growRecursive and of all it calls: how many segments
\* of each depth it pushed, the position on the tape afterwards, and the
\* number of invocations made
RECURSIVE growRecursive(_, _, _)
growRecursive(depth, pos, tape) ==
    LET own == ownSegment(depth)
    IN IF depth >= maxDepth
       THEN [segs |-> own, pos |-> pos, calls |-> 1]
       ELSE LET n == branchCount(depth, pos, tape)
                p1 == pos + drawsUsed(depth)
                c1 == growRecursive(depth + 1, p1, tape)
            IN IF n = 1
               THEN [segs |-> [d \in Depths |-> own[d] + c1.segs[d]],
                     pos |-> c1.pos,
                     calls |-> 1 + c1.calls]
               ELSE LET c2 == growRecursive(depth + 1, c1.pos, tape)
                    IN [segs |-> [d \in Depths |->
                                     own[d] + c1.segs[d] + c2.segs[d]],
                        pos |-> c2.pos,
                        calls |-> 1 + c1.calls + c2.calls]

\* segments.sort by depth: the sorted array as runs of equal depth (the
\* order among equal depths is geometric)
RECURSIVE sortByDepth(_, _)
sortByDepth(segs, d) ==
    IF d \notin Depths THEN <<>>
    ELSE IF segs[d] = 0 THEN sortByDepth(segs, d + 1)
    ELSE <<[depth |-> d, n |-> segs[d]]>> \o sortByDepth(segs, d + 1)

\* length of an array held as runs
RECURSIVE length(_)
length(runs) ==
    IF runs = <<>> THEN 0 ELSE Head(runs).n + length(Tail(runs))

\* treeInit regenerating the segments but leaving grown and progress as a
\* finished growth left them
treeInit_stale(tape) ==
    LET g == growRecursive(0, 0, tape)
    IN [segments |-> sortByDepth(g.segs, 0),
        calls |-> g.calls,
        grown |-> TRUE,
        progress |-> [num |-> 1, den |-> 1]]

\* calls is a history field: the invocations of _growRecursive that the
\* last tree.init() made
treeInit(tape) ==
    LET g == growRecursive(0, 0, tape)
    IN [segments |-> sortByDepth(g.segs, 0),
        calls |-> g.calls,
        grown |-> FALSE,
        progress |-> [num |-> 0, den |-> 1]]

\* the trees tree.init() can generate
Trees == {treeInit(tape) : tape \in Tapes}

\* clamp(6.5 - state.w / 900, 4.8, 7.2) seconds, in 20 ms units
growTime(w) == clamp(325 - w \div 18, 240, 360)

treeUpdate(tr, timeIn, w, err) ==
    LET g == growTime(w)
        a == clamp(timeIn, 0, g)
    IN [tr EXCEPT !.progress = smoothstep(a, g),
                  !.grown = reached(timeIn, g, err)]

\* Math.floor(n * this.progress) of tree.draw
revealCount(tr) ==
    MulDiv(length(tr.segments), tr.progress.num, tr.progress.den).q

\* ------------------------------------------------------------------------
\* Face particle system
\* ------------------------------------------------------------------------
faceInit ==
    [ready |-> FALSE, targetPoints |-> <<>>, particles |-> 0,
     builtOnce |-> FALSE, offWidth |-> 0]

\* a run of n points pushed onto points
pushRun(points, kind, n) ==
    IF n = 0 THEN points ELSE Append(points, [kind |-> kind, n |-> n])

\* Math.floor(portraitW), portraitW = Math.min(420, state.w * 0.58)
offWidthOf(w) == Min(420, (58 * w) \div 100)

\* clamp(Math.floor(portraitW / 80), 4, 8)
stepOf(w) == clamp(offWidthOf(w) \div 80, 4, 8)

\* grid coordinates 0, step, 2*step, ... below portraitW
gridCoords(w) ==
    {c \in 0..420 : c % stepOf(w) = 0 /\ 100 * c < Min(42000, 58 * w)}

\* rows y whose pixel index (y * portraitW + x) * 4 is a whole number; the
\* other rows read undefined, their luminance is NaN and no point is kept
sampleRows(w) ==
    {y \in gridCoords(w) : 58 * w >= 42000 \/ (y * 58 * w) % 100 = 0}

maxKept(w) == Cardinality(sampleRows(w)) * Cardinality(gridCoords(w))

\* the widths tried, each with the most points the loop can keep
MaxKeptTable == {<<w, maxKept(w)>> : w \in Widths}

\* the counts the luminance loop may keep at width w
KeptAt(w) ==
    {k \in KeptSamples : \E p \in MaxKeptTable : p[1] = w /\ k <= p[2]}

\* buildPoints without the minimum-count fallback
buildPoints_noFallback(kept) == pushRun(<<>>, "sampled", kept)

\* buildPoints with the fallback also taken at exactly MinPoints
buildPoints_inclusive(kept) ==
    LET points == pushRun(<<>>, "sampled", kept)
    IN IF kept <= MinPoints
       THEN pushRun(points, "synthetic", SyntheticPoints)
       ELSE points

\* the points array after the luminance loop kept `kept' points
buildPoints(kept) ==
    LET points == pushRun(<<>>, "sampled", kept)
    IN IF kept < MinPoints
       THEN pushRun(points, "synthetic", SyntheticPoints)
       ELSE points

\* tryBuildTargets without the builtOnce guard
tryBuildTargets_rebuild(fp, img, w, kept) ==
    IF ~img.face.ok THEN fp
    ELSE [fp EXCEPT !.offWidth = offWidthOf(w),
                    !.targetPoints = buildPoints(kept),
                    !.ready = TRUE,
                    !.builtOnce = TRUE,
                    !.particles = 0]

tryBuildTargets(fp, img, w, kept) ==
    IF fp.builtOnce THEN fp
    ELSE IF ~img.face.ok THEN fp
    ELSE [fp EXCEPT !.offWidth = offWidthOf(w),
                    !.targetPoints = buildPoints(kept),
                    !.ready = TRUE,
                    !.builtOnce = TRUE,
                    !.particles = 0]

\* spawnBatch creating every missing particle at once
spawnBatch_all(fp, maxNew) ==
    LET total == length(fp.targetPoints)
    IN IF ~fp.ready THEN fp
       ELSE IF fp.particles >= total THEN fp
       ELSE [fp EXCEPT !.particles = total]

spawnBatch(fp, maxNew) ==
    LET total == length(fp.targetPoints)
    IN IF ~fp.ready THEN fp
       ELSE IF fp.particles >= total THEN fp
       ELSE [fp EXCEPT !.particles = Min(total, fp.particles + maxNew)]

\* state.w < 520 ? 70 : 120
batchLimit(w) == IF w < 520 THEN 70 ELSE 120

faceUpdate(fp, img, w, kept) ==
    spawnBatch(tryBuildTargets(fp, img, w, kept), batchLimit(w))

\* ------------------------------------------------------------------------
\* Orchestration
\* ------------------------------------------------------------------------
\* frameDt without the clamp
frameDt_unclamped(gap) == gap

\* frameDt with state.t0 = now moved before the subtraction
frameDt_t0First(gap) == clamp(gap - gap, 0, MaxDt)

\* state.dt = clamp(now - state.t0, 0, 40)
frameDt(gap) == clamp(gap, 0, MaxDt)

\* sceneAfter going from Tree straight to Portrait
sceneAfter_skipPause(sc, t, grown, err) ==
    IF sc.name = SEED
    THEN IF exceeds(t, SeedTime, err) THEN switchTo(TREE)
         ELSE [sc EXCEPT !.timeIn = t]
    ELSE IF sc.name = TREE
    THEN IF grown THEN switchTo(FACE) ELSE [sc EXCEPT !.timeIn = t]
    ELSE IF sc.name = PAUSE
    THEN IF exceeds(t, PauseTime, err) THEN switchTo(FACE)
         ELSE [sc EXCEPT !.timeIn = t]
    ELSE [sc EXCEPT !.timeIn = t]

\* sceneAfter leaving Seed after the pause time
sceneAfter_seedShort(sc, t, grown, err) ==
    IF sc.name = SEED
    THEN IF exceeds(t, PauseTime, err) THEN switchTo(TREE)
         ELSE [sc EXCEPT !.timeIn = t]
    ELSE IF sc.name = TREE
    THEN IF grown THEN switchTo(PAUSE) ELSE [sc EXCEPT !.timeIn = t]
    ELSE IF sc.name = PAUSE
    THEN IF exceeds(t, PauseTime, err) THEN switchTo(FACE)
         ELSE [sc EXCEPT !.timeIn = t]
    ELSE [sc EXCEPT !.timeIn = t]

\* the scene after update(dt) brought scene.timeIn to t
sceneAfter(sc, t, grown, err) ==
    IF sc.name = SEED
    THEN IF exceeds(t, SeedTime, err) THEN switchTo(TREE)
         ELSE [sc EXCEPT !.timeIn = t]
    ELSE IF sc.name = TREE
    THEN IF grown THEN switchTo(PAUSE) ELSE [sc EXCEPT !.timeIn = t]
    ELSE IF sc.name = PAUSE
    THEN IF exceeds(t, PauseTime, err) THEN switchTo(FACE)
         ELSE [sc EXCEPT !.timeIn = t]
    ELSE [sc EXCEPT !.timeIn = t]

\* frame with facePortrait.update called in every scene
Frame_alwaysFace(gap, err, kept) ==
    LET dt == frameDt(gap)
        t == scene.timeIn + dt
        tr == IF scene.name = TREE
              THEN treeUpdate(tree, t, state.w, err) ELSE tree
    IN /\ state.running
       /\ scene.name = FACE => t <= MaxFaceTime
       /\ tree' = tr
       /\ scene' = sceneAfter(scene, t, tr.grown, err)
       /\ facePortrait' = faceUpdate(facePortrait, images, state.w, kept)
       /\ fed' = Min(fed + dt, SeedTime + MaxDt)
       /\ resetFrom' = "none"
       /\ UNCHANGED <<state, images, loader>>

\* frame(now): gap = now - state.t0; err and kept are what this tick draws
Frame(gap, err, kept) ==
    LET dt == frameDt(gap)
        t == scene.timeIn + dt
        tr == IF scene.name = TREE
              THEN treeUpdate(tree, t, state.w, err) ELSE tree
    IN /\ state.running
       /\ scene.name = FACE => t <= MaxFaceTime
       /\ tree' = tr
       /\ scene' = sceneAfter(scene, t, tr.grown, err)
       /\ facePortrait' = IF scene.name = FACE
                          THEN faceUpdate(facePortrait, images, state.w, kept)
                          ELSE facePortrait
       /\ fed' = Min(fed + dt, SeedTime + MaxDt)
       /\ resetFrom' = "none"
       /\ UNCHANGED <<state, images, loader>>

\* a tick draws kept only when it builds the targets, and the rounding of
\* scene.timeIn only shows when it sits on a threshold
building == scene.name = FACE /\ ~facePortrait.builtOnce /\ images.face.ok

onThreshold(t) ==
    \/ scene.name = SEED /\ t = SeedTime
    \/ scene.name = TREE /\ t = growTime(state.w)
    \/ scene.name = PAUSE /\ t = PauseTime

Tick == \E gap \in Gaps :
    \E err \in IF onThreshold(scene.timeIn + frameDt(gap))
                THEN RoundingSigns ELSE {0} :
        \E kept \in IF building THEN KeptAt(state.w) ELSE {0} :
            Frame(gap, err, kept)

\* resize(): state.w = Math.floor(window.innerWidth)
Resize == \E nw \in Widths :
    /\ nw # state.w
    /\ state' = [state EXCEPT !.w = nw]
    /\ UNCHANGED <<images, loader, scene, tree, facePortrait, fed, resetFrom>>

\* resetAll(), tr being the tree that tree.init() generates
resetAll(tr) ==
    [tree |-> tr, facePortrait |-> faceInit,
     scene |-> switchTo(SEED)]

\* click on #replay
Replay == \E tr \in Trees :
    LET r == resetAll(tr)
    IN /\ tree' = r.tree
       /\ facePortrait' = r.facePortrait
       /\ scene' = r.scene
       /\ fed' = 0
       /\ resetFrom' = scene.name
       /\ UNCHANGED <<state, images, loader>>

\* the face load settles: onload (ok) or onerror
FaceSettled == \E ok \in BOOLEAN :
    /\ loader = "face"
    /\ images' = [images EXCEPT !.face.ok = ok]
    /\ loader' = "tiles"
    /\ UNCHANGED <<state, scene, tree, facePortrait, fed, resetFrom>>

\* one tile load, dispatched by the loop, settles
TileSettled == \E ok \in BOOLEAN :
    /\ loader = "tiles"
    /\ images.tilesReadyCount + images.tilesFailed < NumTiles
    /\ images' = IF ok
                 THEN [images EXCEPT !.tilesReadyCount = @ + 1]
                 ELSE [images EXCEPT !.tilesFailed = @ + 1]
    /\ UNCHANGED <<state, loader, scene, tree, facePortrait, fed, resetFrom>>

InitWith(ws, trs) ==
    /\ state \in [w : ws, running : {TRUE}]
    /\ images = [face |-> [ok |-> FALSE], tilesReadyCount |-> 0,
                 tilesFailed |-> 0]
    /\ loader = "face"
    /\ \E tr \in trs :
         LET r == resetAll(tr)
         IN /\ tree = r.tree
            /\ facePortrait = r.facePortrait
            /\ scene = r.scene
    /\ fed = 0
    /\ resetFrom = "none"

Init == InitWith(Widths, Trees)

Next == Tick \/ Resize \/ Replay \/ FaceSettled

Spec == Init /\ [][Next]_vars

\* ------------------------------------------------------------------------
\* The loader next to the tick loop: every load may succeed, fail or never
\* settle, there is no restart, and requestAnimationFrame keeps calling
\* frame, here with timestamps at least 40 ms apart
\* ------------------------------------------------------------------------
LoadTick == \E gap \in MaxDt..MaxGap :
    \E err \in IF onThreshold(scene.timeIn + frameDt(gap))
                THEN RoundingSigns ELSE {0} :
        \E kept \in IF building THEN KeptAt(state.w) ELSE {0} :
            Frame(gap, err, kept)

LoadInit == InitWith({1548}, {treeInit([i \in 1..TapeLen |-> TRUE])})

LoadNext == LoadTick \/ FaceSettled \/ TileSettled

LoadSpec == LoadInit /\ [][LoadNext]_vars /\ WF_vars(LoadTick)

\* ------------------------------------------------------------------------
\* Properties
\* ------------------------------------------------------------------------
SceneSteps == {<<SEED, TREE>>, <<TREE, PAUSE>>, <<PAUSE, FACE>>}

\* C1: a step that is not a restart leaves the scene or moves it one step
\* along Seed -> Tree -> Pause -> Portrait; no step leaves Portrait, and a
\* tick in Portrait runs facePortrait.update (it spawns while points remain)
C1_SceneOrder ==
    [][Replay \/
       /\ scene'.name = scene.name \/ <<scene.name, scene'.name>> \in SceneSteps
       /\ scene.name = FACE => scene'.name = FACE
       /\ (Tick /\ scene.name = FACE /\ facePortrait.ready
              /\ facePortrait.particles < length(facePortrait.targetPoints))
            => facePortrait'.particles > facePortrait.particles]_vars

C1_Witness ==
    /\ scene.name = FACE /\ scene.timeIn = MaxFaceTime
    /\ facePortrait.particles > batchLimit(state.w)

\* C2 as stated: once the deltas fed since Seed began sum to exactly 2.4 time
\* units, the scene is Tree with elapsed time 0
C2_Original ==
    fed = SeedTime => (scene.name = TREE /\ scene.timeIn = 0)

\* C2 amended: the scene is Seed, its elapsed time the sum fed, while that sum
\* is below 2.4; it has left Seed once the sum is above 2.4; Seed is left for
\* Tree; and every change of scene zeroes the elapsed time
C2_SeedToTree ==
    /\ [](fed < SeedTime => (scene.name = SEED /\ scene.timeIn = fed))
    /\ [](fed > SeedTime => scene.name # SEED)
    /\ [][(scene.name = SEED /\ scene'.name # SEED)
            => scene' = [name |-> TREE, timeIn |-> 0]]_vars
    /\ [][scene'.name # scene.name => scene'.timeIn = 0]_vars

C2_Witness == scene.name = TREE /\ scene.timeIn = 0 /\ fed = SeedTime + 1

\* C3 as stated: a restart leaves no particle and no tree segment, and the
\* scene at Seed with elapsed time 0
C3_Original ==
    [][Replay => /\ facePortrait'.particles = 0
                 /\ length(tree'.segments) = 0
                 /\ scene' = [name |-> SEED, timeIn |-> 0]]_vars

\* C3 amended: a restart leaves no particle and no target point, a newly
\* generated tree none of whose segments is revealed, and the scene at Seed
\* with elapsed time 0
C3_Restart ==
    resetFrom # "none" =>
        /\ facePortrait.particles = 0
        /\ facePortrait.targetPoints = <<>>
        /\ ~facePortrait.ready /\ ~facePortrait.builtOnce
        /\ length(tree.segments) > 0
        /\ revealCount(tree) = 0 /\ ~tree.grown
        /\ scene = [name |-> SEED, timeIn |-> 0]

C3_Witness == resetFrom = FACE /\ images.face.ok /\ scene.name = SEED

\* C4: whatever loads succeed, fail or never settle, ticks with positive
\* deltas bring the scene to Portrait, where it stays with the loop running
C4_ReachesPortrait == <>[](scene.name = FACE /\ state.running)

C4_Witness ==
    /\ scene.name = FACE /\ ~images.face.ok /\ loader = "tiles"
    /\ images.tilesFailed > 0 /\ images.tilesReadyCount > 0
    /\ images.tilesFailed + images.tilesReadyCount < NumTiles

\* C5 as stated: between two restarts the reveal count never decreases from
\* one tick to the next, and it never exceeds the number of segments
C5_RevealMonotone ==
    /\ [][Replay \/ revealCount(tree') >= revealCount(tree)]_vars
    /\ [](revealCount(tree) <= length(tree.segments))

\* C6: between two restarts the particle count never decreases, a tick adds
\* at most the batch limit of the current width, and the count never exceeds
\* the number of target points
C6_ParticleGrowth ==
    /\ [][Replay \/
          /\ facePortrait'.particles >= facePortrait.particles
          /\ facePortrait'.particles - facePortrait.particles
                <= (IF state.w < 520 THEN 70 ELSE 120)]_vars
    /\ [](facePortrait.particles <= length(facePortrait.targetPoints))

C6_Witness ==
    /\ state.w < 520 /\ facePortrait.particles > 70
    /\ facePortrait.particles = length(facePortrait.targetPoints)

\* C7: a particle field with no target point has no particle and is not ready
C7_NoTargetsNoParticles ==
    length(facePortrait.targetPoints) = 0
        => (facePortrait.particles = 0 /\ ~facePortrait.ready)

C7_Witness ==
    /\ scene.name = FACE /\ scene.timeIn = MaxFaceTime
    /\ loader = "tiles" /\ ~images.face.ok
    /\ length(facePortrait.targetPoints) = 0

\* C8: once the target points are built, tryBuildTargets changes nothing,
\* whatever the width, the face image and the sampling would be; and no step
\* but a restart changes the points, the ready flag or the offscreen width
\* or removes a particle
C8_BuildOnce ==
    /\ [](facePortrait.builtOnce =>
            \A w \in Widths, ok \in BOOLEAN, kept \in KeptSamples :
                tryBuildTargets(facePortrait,
                                [images EXCEPT !.face.ok = ok], w, kept)
                    = facePortrait)
    /\ [][Replay \/ (facePortrait.builtOnce =>
            /\ facePortrait'.targetPoints = facePortrait.targetPoints
            /\ facePortrait'.ready = facePortrait.ready
            /\ facePortrait'.offWidth = facePortrait.offWidth
            /\ facePortrait'.builtOnce
            /\ facePortrait'.particles >= facePortrait.particles)]_vars

C8_Witness ==
    /\ facePortrait.builtOnce /\ scene.timeIn > 0
    /\ facePortrait.particles > 0
    /\ facePortrait.offWidth # offWidthOf(state.w)

\* the points kept by the luminance loop, and the synthetic ones
count(points, kind) ==
    length(SelectSeq(points, LAMBDA r : r.kind = kind))

\* C9: the built collection is the kept points followed by exactly 900
\* synthetic points when fewer than 600 were kept, the kept points alone
\* otherwise
C9_Fallback ==
    /\ \A kept \in KeptSamples :
          /\ count(buildPoints(kept), "sampled") = kept
          /\ count(buildPoints(kept), "synthetic")
                = (IF kept < 600 THEN 900 ELSE 0)
    /\ facePortrait.ready =>
          LET points == facePortrait.targetPoints
              kept == count(points, "sampled")
          IN /\ kept < 600 => count(points, "synthetic") = 900
             /\ kept >= 600 => count(points, "synthetic") = 0
             /\ length(points) = kept + count(points, "synthetic")
             /\ \A i \in 1..Len(points) :
                   points[i].kind = "synthetic" => i = Len(points)

C9_Witness ==
    /\ facePortrait.ready
    /\ facePortrait.targetPoints
         = <<[kind |-> "sampled", n |-> 599], [kind |-> "synthetic", n |-> 900]>>

\* C10: a tick advances the elapsed time of the scene by 0 to 40 ms, or
\* enters the next scene at elapsed time 0, whatever the frame gap
C10_ClampedStep ==
    [][Replay \/
       \/ /\ scene'.name = scene.name
          /\ scene'.timeIn - scene.timeIn \in 0..2
       \/ /\ scene'.name # scene.name
          /\ scene'.timeIn = 0]_vars

C10_Witness == scene.name = PAUSE /\ scene.timeIn = 2

\* C11: the tree holds as many segments as tree.init() made invocations of
\* _growRecursive, at most 2^8 - 1 of them (the recursion ends), and no
\* segment is deeper than 7
C11_OneSegmentPerCall ==
    /\ length(tree.segments) = tree.calls
    /\ tree.calls <= 255
    /\ \A i \in 1..Len(tree.segments) :
          tree.segments[i].depth \in 0..7 /\ tree.segments[i].n > 0

C11_Witness ==
    /\ resetFrom # "none"
    /\ tree.calls > 27 /\ tree.calls < 255
    /\ \E i \in 1..Len(tree.segments) : tree.segments[i].depth = 7

\* C12: outside Portrait the particle field is as facePortrait.init() left
\* it: not ready, not built, without target points and without particles,
\* whether or not the face image has loaded
C12_PortraitOnly ==
    scene.name \in {SEED, TREE, PAUSE} =>
        /\ ~facePortrait.ready /\ ~facePortrait.builtOnce
        /\ length(facePortrait.targetPoints) = 0
        /\ facePortrait.particles = 0

C12_Witness ==
    /\ scene.name = PAUSE /\ scene.timeIn = PauseTime
    /\ images.face.ok /\ fed > SeedTime

====
